---- MODULE Spec2Model ----
(***************************************************************************)
(* University Decision Support dashboard (src/frontend/App.tsx).           *)
(*                                                                         *)
(* The component keeps three pieces of React state (data, aiInsight,       *)
(* loading), derives two quotients per department, evaluates two           *)
(* threshold rules per department on every render, and issues one          *)
(* outbound completion request per click on "Get AI Insights".             *)
(*                                                                         *)
(* JavaScript numbers are IEEE-754 binary64.  The quotients and the mean   *)
(* of the low-budget rule are not exactly representable in general, so     *)
(* the arithmetic is modelled bit-exactly: a finite number is a 53-bit     *)
(* significand (an arbitrary-precision natural, little-endian limbs) and   *)
(* a binary exponent, and every operation rounds to nearest, ties to even. *)
(***************************************************************************)
EXTENDS Integers, Sequences, FiniteSets, TLC

(***************************************************************************)
(* Arbitrary-precision naturals: little-endian sequences of limbs in       *)
(* 0..Base-1 without leading (last) zero limbs; <<>> is zero.              *)
(***************************************************************************)
LimbBits == 15

Base == 2^LimbBits

RECURSIVE BNorm(_)
BNorm(a) ==
    IF a = <<>> THEN a
    ELSE IF a[Len(a)] = 0 THEN BNorm(SubSeq(a, 1, Len(a) - 1))
    ELSE a

RECURSIVE BFromInt(_)
BFromInt(n) ==
    IF n = 0 THEN <<>> ELSE <<n % Base>> \o BFromInt(n \div Base)

RECURSIVE BAddC(_, _, _)
BAddC(a, b, c) ==
    IF a = <<>> /\ b = <<>> THEN (IF c = 0 THEN <<>> ELSE <<c>>)
    ELSE LET x == IF a = <<>> THEN 0 ELSE Head(a)
             y == IF b = <<>> THEN 0 ELSE Head(b)
             s == x + y + c
         IN  <<s % Base>> \o BAddC(IF a = <<>> THEN a ELSE Tail(a),
                                   IF b = <<>> THEN b ELSE Tail(b),
                                   s \div Base)

BAdd(a, b) == BAddC(a, b, 0)

\* a * s for a limb-sized s
RECURSIVE BMulC(_, _, _)
BMulC(a, s, c) ==
    IF a = <<>> THEN BFromInt(c)
    ELSE LET p == Head(a) * s + c
         IN  <<p % Base>> \o BMulC(Tail(a), s, p \div Base)

BMulSmall(a, s) == BNorm(BMulC(a, s, 0))

RECURSIVE BMul(_, _)
BMul(a, b) ==
    IF a = <<>> \/ b = <<>> THEN <<>>
    ELSE BNorm(BAdd(BMulSmall(a, Head(b)), <<0>> \o BMul(a, Tail(b))))

\* a * n for a machine integer n >= 0
BMulInt(a, n) == BMul(a, BFromInt(n))

\* quotient and remainder of a by a limb-sized d > 0
RECURSIVE BDivModRaw(_, _)
BDivModRaw(a, d) ==
    IF a = <<>> THEN [q |-> <<>>, r |-> 0]
    ELSE LET hi  == BDivModRaw(Tail(a), d)
             cur == hi.r * Base + Head(a)
         IN  [q |-> <<cur \div d>> \o hi.q, r |-> cur % d]

BDivMod(a, d) ==
    LET x == BDivModRaw(a, d) IN [q |-> BNorm(x.q), r |-> x.r]

Zeros(k) == [i \in 1..k |-> 0]

BPow2(k) == Zeros(k \div LimbBits) \o <<2^(k % LimbBits)>>

BShl(a, k) ==
    IF a = <<>> THEN a
    ELSE Zeros(k \div LimbBits) \o BMulSmall(a, 2^(k % LimbBits))

BShr(a, k) ==
    LET w == k \div LimbBits
    IN  IF Len(a) <= w THEN <<>>
        ELSE BDivMod(SubSeq(a, w + 1, Len(a)), 2^(k % LimbBits)).q

\* a mod 2^k
BLow(a, k) ==
    LET w == k \div LimbBits
    IN  IF Len(a) <= w THEN a
        ELSE BNorm(SubSeq(a, 1, w) \o <<a[w + 1] % 2^(k % LimbBits)>>)

RECURSIVE IntBitLen(_)
IntBitLen(n) == IF n = 0 THEN 0 ELSE 1 + IntBitLen(n \div 2)

BBitLen(a) ==
    IF a = <<>> THEN 0
    ELSE (Len(a) - 1) * LimbBits + IntBitLen(a[Len(a)])

BOdd(a) == a # <<>> /\ a[1] % 2 = 1

\* -1, 0, 1 as a < b, a = b, a > b
RECURSIVE BCmpFrom(_, _, _)
BCmpFrom(a, b, i) ==
    IF i = 0 THEN 0
    ELSE IF a[i] < b[i] THEN -1
    ELSE IF a[i] > b[i] THEN 1
    ELSE BCmpFrom(a, b, i - 1)

BCmp(a, b) ==
    IF Len(a) < Len(b) THEN -1
    ELSE IF Len(a) > Len(b) THEN 1
    ELSE BCmpFrom(a, b, Len(a))

(***************************************************************************)
(* JavaScript numbers.  A finite non-negative number is m * 2^e with m     *)
(* zero or a 53-bit significand (2^52 <= m < 2^53); NaN and Infinity are   *)
(* the results of 0/0 and x/0.  No operation of the program produces a     *)
(* negative number from non-negative inputs.                               *)
(***************************************************************************)
SignificandBits == 53

NaN == [k |-> "nan"]

Infinity == [k |-> "inf"]

Zero == [k |-> "fin", m |-> <<>>, e |-> 0]

\* the double nearest to M * 2^e (plus a non-zero tail below the last bit
\* of M when sticky), ties to even
RoundNearestEven(M, sticky, e) ==
    IF M = <<>> THEN Zero
    ELSE LET L == BBitLen(M)
         IN  IF L <= SignificandBits
             THEN [k |-> "fin", m |-> BShl(M, SignificandBits - L),
                   e |-> e - (SignificandBits - L)]
             ELSE LET r    == L - SignificandBits
                      q    == BShr(M, r)
                      c    == BCmp(BLow(M, r), BPow2(r - 1))
                      up   == c > 0 \/ (c = 0 /\ (sticky \/ BOdd(q)))
                      q2   == IF up THEN BAdd(q, <<1>>) ELSE q
                  IN  IF BBitLen(q2) > SignificandBits
                      THEN [k |-> "fin", m |-> BShr(q2, 1), e |-> e + r + 1]
                      ELSE [k |-> "fin", m |-> q2, e |-> e + r]

\* an integer-valued number (a CSV cell, an array length, a literal)
ToNumber(n) == RoundNearestEven(BFromInt(n), FALSE, 0)

\* guard bits of a quotient: the divisor is below 2^LimbBits
GuardBits == 2 * LimbBits

\* x / n for a number x and an integer-valued n >= 0 below Base
Divide(x, n) ==
    IF x.k = "nan" THEN NaN
    ELSE IF x.k = "inf" THEN Infinity
    ELSE IF n = 0 THEN (IF x.m = <<>> THEN NaN ELSE Infinity)
    ELSE LET d == BDivMod(BShl(x.m, GuardBits), n)
         IN  RoundNearestEven(d.q, d.r # 0, x.e - GuardBits)

\* x + y
Add(x, y) ==
    IF x.k = "nan" \/ y.k = "nan" THEN NaN
    ELSE IF x.k = "inf" \/ y.k = "inf" THEN Infinity
    ELSE IF x.m = <<>> THEN y
    ELSE IF y.m = <<>> THEN x
    ELSE LET e == IF x.e < y.e THEN x.e ELSE y.e
         IN  RoundNearestEven(BAdd(BShl(x.m, x.e - e), BShl(y.m, y.e - e)),
                              FALSE, e)

\* x * y
Multiply(x, y) ==
    IF x.k = "nan" \/ y.k = "nan" THEN NaN
    ELSE IF x.k = "inf" \/ y.k = "inf"
         THEN (IF (x.k = "fin" /\ x.m = <<>>) \/ (y.k = "fin" /\ y.m = <<>>)
               THEN NaN ELSE Infinity)
    ELSE RoundNearestEven(BMul(x.m, y.m), FALSE, x.e + y.e)

\* x < y; every comparison with NaN is false
Less(x, y) ==
    IF x.k = "nan" \/ y.k = "nan" THEN FALSE
    ELSE IF x.k = "inf" THEN FALSE
    ELSE IF y.k = "inf" THEN TRUE
    ELSE IF y.m = <<>> THEN FALSE
    ELSE IF x.m = <<>> THEN TRUE
    ELSE IF x.e # y.e THEN x.e < y.e
    ELSE BCmp(x.m, y.m) < 0

\* the literal 0.8: the double nearest to 4/5
Literal08 == Divide(ToNumber(4), 5)

RECURSIVE BToInt(_)
BToInt(a) == IF a = <<>> THEN 0 ELSE Head(a) + Base * BToInt(Tail(a))

\* Number.prototype.toFixed(f): the integer n for which n / 10^f - x is
\* closest to zero, the larger n on a tie, printed with f fraction digits.
\* The text is kept as the pair (n, f); every number shown is below 2^52.
toFixed(x, f) ==
    IF x.k = "nan" THEN [text |-> "NaN"]
    ELSE IF x.k = "inf" THEN [text |-> "Infinity"]
    ELSE IF x.m = <<>> THEN [text |-> "decimal", n |-> 0, f |-> f]
    ELSE LET s == 0 - x.e
             n == BShr(BAdd(BMulInt(x.m, 2 * 10^f), BPow2(s)), s + 1)
         IN  [text |-> "decimal", n |-> BToInt(n), f |-> f]

(***************************************************************************)
(* Department rows as the CSV parser or the sample literal delivers them.  *)
(***************************************************************************)
MaxRows == 2

DepartmentNames == {"Mathematics", "Physics"}

StudentsValues == {300, 450}

FacultyValues == {10, 12}

BudgetValues == {1000000, 2500000}

Department ==
    [Department : DepartmentNames, Students : StudentsValues,
     Faculty : FacultyValues, Budget : BudgetValues]

DepartmentArrays == UNION {[1..n -> Department] : n \in 0..MaxRows}

\* the reducer callbacks of the program, by the line that writes them
Callback(line, acc, d) ==
    CASE line = 53 -> Add(acc, Divide(ToNumber(d.Budget), d.Students))
      [] line = 78 -> Add(acc, ToNumber(d.Students))
      [] line = 79 -> Add(acc, IF d.StudentFacultyRatio.k = "nan"
                                  \/ (d.StudentFacultyRatio.k = "fin"
                                      /\ d.StudentFacultyRatio.m = <<>>)
                               THEN Zero ELSE d.StudentFacultyRatio)
      [] line = 80 -> Add(acc, ToNumber(d.Budget))

\* Array.prototype.reduce with an initial value
RECURSIVE reduce(_, _, _)
reduce(line, arr, init) ==
    IF arr = <<>> THEN init
    ELSE reduce(line, Tail(arr), Callback(line, init, Head(arr)))

\* 'Budget per Student' divided by the wrong column
analyzeDepartmentDataBudgetPerFaculty(departments) ==
    [i \in 1..Len(departments) |->
        [Department          |-> departments[i].Department,
         Students            |-> departments[i].Students,
         Faculty             |-> departments[i].Faculty,
         Budget              |-> departments[i].Budget,
         StudentFacultyRatio |-> Divide(ToNumber(departments[i].Students),
                                        departments[i].Faculty),
         BudgetPerStudent    |-> Divide(ToNumber(departments[i].Budget),
                                        departments[i].Faculty)]]

\* lines 39-45
analyzeDepartmentData(departments) ==
    [i \in 1..Len(departments) |->
        [Department          |-> departments[i].Department,
         Students            |-> departments[i].Students,
         Faculty             |-> departments[i].Faculty,
         Budget              |-> departments[i].Budget,
         StudentFacultyRatio |-> Divide(ToNumber(departments[i].Students),
                                        departments[i].Faculty),
         BudgetPerStudent    |-> Divide(ToNumber(departments[i].Budget),
                                        departments[i].Students)]]

\* line 50: dept['Student-Faculty Ratio'] > 30
RatioThreshold == 30

\* the comparison written >= instead of >
HighRatioInclusive(dept) ==
    ~Less(dept.StudentFacultyRatio, ToNumber(RatioThreshold))

HighRatio(dept) == Less(ToNumber(RatioThreshold), dept.StudentFacultyRatio)

\* line 53
avgBudgetPerStudent(departments) ==
    Divide(reduce(53, departments, Zero), Len(departments))

\* line 54: dept['Budget per Student'] < avgBudgetPerStudent * 0.8
LowBudget(dept, departments) ==
    Less(dept.BudgetPerStudent,
         Multiply(avgBudgetPerStudent(departments), Literal08))

\* line 51
RatioMessage(dept) ==
    [rule |-> "ratio", Department |-> dept.Department,
     shown |-> toFixed(dept.StudentFacultyRatio, 1)]

\* line 55
BudgetMessage(dept) ==
    [rule |-> "budget", Department |-> dept.Department,
     shown |-> toFixed(dept.BudgetPerStudent, 2)]

\* the two rules evaluated in the other order
forEachBodyBudgetFirst(dept, departments) ==
    (IF LowBudget(dept, departments) THEN <<BudgetMessage(dept)>> ELSE <<>>)
    \o (IF HighRatio(dept) THEN <<RatioMessage(dept)>> ELSE <<>>)

\* lines 49-57: what one iteration of the forEach pushes, in push order
forEachBody(dept, departments) ==
    (IF HighRatio(dept) THEN <<RatioMessage(dept)>> ELSE <<>>)
    \o (IF LowBudget(dept, departments) THEN <<BudgetMessage(dept)>> ELSE <<>>)

\* lines 47-59: the whole call, as every render makes it (line 221)
RECURSIVE forEachFrom(_, _, _)
forEachFrom(departments, i, pushed) ==
    IF i > Len(departments) THEN pushed
    ELSE forEachFrom(departments, i + 1,
                     pushed \o forEachBody(departments[i], departments))

generateRecommendations(departments) == forEachFrom(departments, 1, <<>>)

(***************************************************************************)
(* The aggregate summary of getAiInsights (lines 78-80) and the prompt     *)
(* built from it (lines 92-96).  An exception is the value Thrown.         *)
(***************************************************************************)
Thrown == [k |-> "throw"]

\* reduce without an initial value: TypeError on an empty array
totalStudentsNoInitialValue(data) ==
    IF data = <<>> THEN Thrown
    ELSE reduce(78, Tail(data), ToNumber(Head(data).Students))

\* line 78
totalStudents(data) == reduce(78, data, Zero)

\* line 79; (dept['Student-Faculty Ratio'] || 0) takes 0 for 0 and NaN
avgRatio(data) == Divide(reduce(79, data, Zero), Len(data))

\* line 80
totalBudget(data) == reduce(80, data, Zero)

\* lines 78-96; `${totalStudents}` prints an integer-valued number as its
\* digits, which toFixed(0) gives as well
AggregateSummary(data) ==
    LET ts == totalStudents(data)
        ar == avgRatio(data)
        tb == totalBudget(data)
    IN  IF ts.k = "throw" \/ ar.k = "throw" \/ tb.k = "throw" THEN Thrown
        ELSE [k |-> "prompt",
              totalStudents |-> IF ts.k = "fin" THEN toFixed(ts, 0)
                                ELSE [text |-> "NaN"],
              avgRatio      |-> toFixed(ar, 1),
              totalBudget   |-> toFixed(tb, 2)]

(***************************************************************************)
(* State.                                                                  *)
(*   data, aiInsight, loading   the component's React state (lines 35-37)  *)
(*   parsing    Papa.parse jobs whose complete callback has not run yet    *)
(*   requests   getAiInsights invocations suspended at an await            *)
(*   loads      history: the rows of every load action, in trigger order   *)
(*   outcome    history: how the last finished insight request ended       *)
(*   writes, finished   history: calls of setAiInsight, requests finished  *)
(* The second group holds one call of the derivation and recommendation    *)
(* functions on its own: its argument, its position and its results.       *)
(***************************************************************************)
VARIABLES data, aiInsight, loading, parsing, requests, loads, outcome,
          writes, finished

VARIABLES departments, pc, analyzed, index, recommendations, origin,
          avgCalls, summary

uiVars == <<data, aiInsight, loading, parsing, requests, loads, outcome,
            writes, finished>>

fnVars == <<departments, pc, analyzed, index, recommendations, origin,
            avgCalls, summary>>

vars == <<uiVars, fnVars>>

\* a JavaScript string value
Str(s) == [t |-> "string", s |-> s]

\* lines 35-37
InitUi ==
    /\ data = <<>>
    /\ aiInsight = Str("")
    /\ loading = FALSE
    /\ parsing = {}
    /\ requests = <<>>
    /\ loads = <<>>
    /\ outcome = [how |-> "none"]
    /\ writes = 0
    /\ finished = 0

IdleFn ==
    /\ departments = <<>>
    /\ pc = "idle"
    /\ analyzed = <<>>
    /\ index = 0
    /\ recommendations = <<>>
    /\ origin = <<>>
    /\ avgCalls = 0
    /\ summary = [k |-> "none"]

(***************************************************************************)
(* The functions on their own: analyzeDepartmentData on any array of       *)
(* departments, then generateRecommendations on its result, one forEach    *)
(* iteration per step, then the aggregate summary.                         *)
(***************************************************************************)
InitFn ==
    /\ InitUi
    /\ departments \in DepartmentArrays
    /\ pc = "start"
    /\ analyzed = <<>>
    /\ index = 0
    /\ recommendations = <<>>
    /\ origin = <<>>
    /\ avgCalls = 0
    /\ summary = [k |-> "none"]

\* lines 39-45
CallAnalyze ==
    /\ pc = "start"
    /\ analyzed' = analyzeDepartmentData(departments)
    /\ pc' = "analyzed"
    /\ UNCHANGED <<departments, index, recommendations, origin, avgCalls,
                   summary>>
    /\ UNCHANGED uiVars

\* lines 47-48
CallRecommend ==
    /\ pc = "analyzed"
    /\ recommendations' = <<>>
    /\ origin' = <<>>
    /\ index' = 0
    /\ pc' = "forEach"
    /\ UNCHANGED <<departments, analyzed, avgCalls, summary>>
    /\ UNCHANGED uiVars

\* lines 49-57, one iteration
ForEachStep ==
    /\ pc = "forEach"
    /\ index < Len(analyzed)
    /\ LET pushed == forEachBody(analyzed[index + 1], analyzed)
       IN  /\ recommendations' = recommendations \o pushed
           /\ origin' = origin \o [j \in 1..Len(pushed) |-> index + 1]
    /\ index' = index + 1
    /\ avgCalls' = avgCalls + 1
    /\ UNCHANGED <<departments, pc, analyzed, summary>>
    /\ UNCHANGED uiVars

\* line 58
ReturnRecommendations ==
    /\ pc = "forEach"
    /\ index = Len(analyzed)
    /\ recommendations = generateRecommendations(analyzed)
    /\ pc' = "returned"
    /\ UNCHANGED <<departments, analyzed, index, recommendations, origin,
                   avgCalls, summary>>
    /\ UNCHANGED uiVars

\* lines 78-80, 92-96
Summarize ==
    /\ pc = "returned"
    /\ summary' = AggregateSummary(analyzed)
    /\ pc' = "done"
    /\ UNCHANGED <<departments, analyzed, index, recommendations, origin,
                   avgCalls>>
    /\ UNCHANGED uiVars

NextFn ==
    \/ CallAnalyze
    \/ CallRecommend
    \/ ForEachStep
    \/ ReturnRecommendations
    \/ Summarize

SpecFn == InitFn /\ [][NextFn]_vars

(***************************************************************************)
(* JavaScript values of a response payload, and property access on them:   *)
(* reading a property of undefined or null throws a TypeError, reading a   *)
(* property a value does not have gives undefined.                         *)
(***************************************************************************)
Undefined == [t |-> "undefined"]

TypeError == [t |-> "throw"]

Obj(props) == [t |-> "object", props |-> props]

Arr(items) == [t |-> "array", items |-> items]

\* v[key]
Get(v, key) ==
    IF v.t = "throw" THEN v
    ELSE IF v.t \in {"undefined", "null"} THEN TypeError
    ELSE IF v.t = "object" /\ key \in DOMAIN v.props THEN v.props[key]
    ELSE Undefined

\* v[0]
First(v) ==
    IF v.t = "throw" THEN v
    ELSE IF v.t \in {"undefined", "null"} THEN TypeError
    ELSE IF v.t = "array" /\ v.items # <<>> THEN v.items[1]
    ELSE Undefined

\* line 104
Fallback == Str("Error getting AI insights. Please try again later.")

(***************************************************************************)
(* The environment: the files the user may choose, and what the            *)
(* completion endpoint may answer.                                         *)
(***************************************************************************)
Row(name, students, faculty, budget) ==
    [Department |-> name, Students |-> students, Faculty |-> faculty,
     Budget |-> budget]

CsvFiles ==
    { <<>>,
      <<Row("Mathematics", 300, 10, 1500000),
        Row("Physics", 450, 12, 1000000)>> }

\* lines 110-119
sampleData ==
    << Row("Computer Science", 450, 12, 2000000),
       Row("Mathematics", 300, 10, 1500000),
       Row("Physics", 200, 8, 1800000),
       Row("Chemistry", 250, 9, 1700000),
       Row("Biology", 350, 11, 1900000),
       Row("Engineering", 500, 15, 2500000),
       Row("Psychology", 400, 10, 1600000),
       Row("Economics", 350, 9, 1400000) >>

StatusValues == {200, 500}

NotJson == [json |-> FALSE]

Json(v) == [json |-> TRUE, value |-> v]

Completion(content) ==
    Obj([index |-> Undefined, message |-> Obj([content |-> Str(content)])])

ResponseBodies ==
    { NotJson,
      Json(Obj([error |-> Obj([message |-> Str("Rate limit reached")])])),
      Json(Obj([choices |-> Arr(<<>>)])),
      Json(Obj([choices |-> Arr(<<Obj([message |-> Obj([role |-> Str("assistant")])])>>)])),
      Json(Obj([choices |-> Arr(<<Completion("Insight A")>>)])),
      Json(Obj([choices |-> Arr(<<Completion("Insight B"),
                                  Completion("Insight A")>>)])) }

MaxLoads == 2

MaxRequests == 2

(***************************************************************************)
(* The component.                                                          *)
(***************************************************************************)
Init == InitUi /\ IdleFn

Remove(seq, i) == SubSeq(seq, 1, i - 1) \o SubSeq(seq, i + 1, Len(seq))

\* setData(value) appending to the current array instead of replacing it
setDataAppending(current, value) == current \o value

\* lines 69, 120: setData(value) replaces the state
setData(current, value) == value

\* lines 61-66: Papa.parse reads the file asynchronously and calls complete
\* later; a change event without a file does nothing
handleFileUpload(file) ==
    /\ Len(loads) < MaxLoads
    /\ parsing' = parsing \cup {[id |-> Len(loads) + 1, rows |-> file]}
    /\ loads' = Append(loads, file)
    /\ UNCHANGED <<data, aiInsight, loading, requests, outcome, writes,
                   finished>>
    /\ UNCHANGED fnVars

\* lines 67-70: the complete callback of one parse
ParseComplete(job) ==
    /\ job \in parsing
    /\ parsing' = parsing \ {job}
    /\ data' = setData(data, analyzeDepartmentData(job.rows))
    /\ UNCHANGED <<aiInsight, loading, requests, loads, outcome, writes,
                   finished>>
    /\ UNCHANGED fnVars

\* lines 109-121
loadSampleData ==
    /\ Len(loads) < MaxLoads
    /\ data' = setData(data, analyzeDepartmentData(sampleData))
    /\ loads' = Append(loads, sampleData)
    /\ UNCHANGED <<aiInsight, loading, parsing, requests, outcome, writes,
                   finished>>
    /\ UNCHANGED fnVars

\* the insight button rendered whatever the loading flag
ButtonAlwaysEnabled == Len(data) > 0

\* lines 143, 228-230: the button exists when there is data, and is
\* disabled while loading
ButtonEnabled == Len(data) > 0 /\ ~loading

\* lines 75-99: up to the await of fetch
ClickGetAiInsights ==
    /\ ButtonEnabled
    /\ finished + Len(requests) < MaxRequests
    /\ LET prompt == AggregateSummary(data)
       IN  IF prompt.k = "throw"
           THEN /\ aiInsight' = Fallback
                /\ loading' = FALSE
                /\ writes' = writes + 1
                /\ finished' = finished + 1
                /\ outcome' = [how |-> "threw"]
                /\ UNCHANGED requests
           ELSE /\ loading' = TRUE
                /\ requests' = Append(requests,
                                      [stage |-> "fetch", prompt |-> prompt])
                /\ UNCHANGED <<aiInsight, writes, finished, outcome>>
    /\ UNCHANGED <<data, parsing, loads>>
    /\ UNCHANGED fnVars

\* lines 82, 103-106: fetch rejects (network error)
FetchRejects(i) ==
    /\ i \in DOMAIN requests
    /\ requests[i].stage = "fetch"
    /\ aiInsight' = Fallback
    /\ loading' = FALSE
    /\ requests' = Remove(requests, i)
    /\ outcome' = [how |-> "rejected"]
    /\ writes' = writes + 1
    /\ finished' = finished + 1
    /\ UNCHANGED <<data, parsing, loads>>
    /\ UNCHANGED fnVars

\* lines 82-101: fetch resolves with a response of any status; the code
\* goes on to await response.json()
FetchResolves(i, status, body) ==
    /\ i \in DOMAIN requests
    /\ requests[i].stage = "fetch"
    /\ requests' = [requests EXCEPT ![i] =
                        [stage |-> "json", status |-> status, body |-> body]]
    /\ UNCHANGED <<data, aiInsight, loading, parsing, loads, outcome, writes,
                   finished>>
    /\ UNCHANGED fnVars

\* the content of the last choice instead of the first
InsightOfLastChoice(body) ==
    LET result  == IF body.json THEN body.value ELSE TypeError
        choices == Get(result, "choices")
        last    == IF choices.t = "array" /\ choices.items # <<>>
                   THEN choices.items[Len(choices.items)] ELSE First(choices)
        content == Get(Get(last, "message"), "content")
    IN  IF content.t = "throw" THEN Fallback ELSE content

\* lines 101-105: the value setAiInsight is called with once response.json()
\* has settled; a rejection or a TypeError lands in the catch
InsightOf(body) ==
    LET result  == IF body.json THEN body.value ELSE TypeError
        content == Get(Get(First(Get(result, "choices")), "message"), "content")
    IN  IF content.t = "throw" THEN Fallback ELSE content

\* lines 101-106: response.json() settles
JsonSettles(i) ==
    /\ i \in DOMAIN requests
    /\ requests[i].stage = "json"
    /\ aiInsight' = InsightOf(requests[i].body)
    /\ loading' = FALSE
    /\ requests' = Remove(requests, i)
    /\ outcome' = [how |-> "response", status |-> requests[i].status,
                   body |-> requests[i].body]
    /\ writes' = writes + 1
    /\ finished' = finished + 1
    /\ UNCHANGED <<data, parsing, loads>>
    /\ UNCHANGED fnVars

Next ==
    \/ \E file \in CsvFiles : handleFileUpload(file)
    \/ \E job \in parsing : ParseComplete(job)
    \/ loadSampleData
    \/ ClickGetAiInsights
    \/ \E i \in DOMAIN requests : FetchRejects(i)
    \/ \E i \in DOMAIN requests, status \in StatusValues,
          body \in ResponseBodies : FetchResolves(i, status, body)
    \/ \E i \in DOMAIN requests : JsonSettles(i)

Spec == Init /\ [][Next]_vars

(***************************************************************************)
(* Exact arithmetic for stating the properties: nothing below rounds.      *)
(***************************************************************************)
\* a - b for a >= b
RECURSIVE BSubC(_, _, _)
BSubC(a, b, c) ==
    IF a = <<>> THEN <<>>
    ELSE LET y == IF b = <<>> THEN 0 ELSE Head(b)
             s == Head(a) - y - c
         IN  <<s % Base>> \o BSubC(Tail(a),
                                   IF b = <<>> THEN b ELSE Tail(b),
                                   IF s < 0 THEN 1 ELSE 0)

BSub(a, b) == BNorm(BSubC(a, b, 0))

BAbsDiff(a, b) == IF BCmp(a, b) >= 0 THEN BSub(a, b) ELSE BSub(b, a)

\* x is a double nearest to the exact quotient a / b (a >= 0, b > 0):
\* |x - a/b| is at most half a unit in the last place of x
IsQuotient(x, a, b) ==
    /\ x.k = "fin"
    /\ IF a = 0 THEN x.m = <<>>
       ELSE /\ BBitLen(x.m) = SignificandBits
            /\ LET l == IF x.e < 0 THEN BMulInt(x.m, b)
                        ELSE BMulInt(BShl(x.m, x.e), b)
                   r == IF x.e < 0 THEN BShl(BFromInt(a), 0 - x.e)
                        ELSE BFromInt(a)
                   u == IF x.e < 0 THEN BFromInt(b)
                        ELSE BShl(BFromInt(b), x.e)
               IN  BCmp(BMulSmall(BAbsDiff(l, r), 2), u) <= 0

\* Budget[i] times the Students of every other record: Budget[i] /
\* Students[i] over the common denominator of the whole array
RECURSIVE WeightFrom(_, _, _)
WeightFrom(arr, i, k) ==
    IF k > Len(arr) THEN <<1>>
    ELSE BMulInt(WeightFrom(arr, i, k + 1),
                 IF k = i THEN arr[k].Budget ELSE arr[k].Students)

Weight(arr, i) == WeightFrom(arr, i, 1)

RECURSIVE WeightSum(_, _)
WeightSum(arr, k) ==
    IF k > Len(arr) THEN <<>>
    ELSE BAdd(Weight(arr, k), WeightSum(arr, k + 1))

\* Budget[i] / Students[i] < 0.8 * mean of Budget / Students, exactly:
\* 5 * n * w[i] < 4 * (w[1] + ... + w[n])
ExactlyBelow80Percent(arr, i) ==
    BCmp(BMulInt(Weight(arr, i), 5 * Len(arr)),
         BMulInt(WeightSum(arr, 1), 4)) < 0

\* the forEach has pushed a message of this rule for the record at i
Pushed(rule, i) ==
    \E p \in DOMAIN recommendations :
        /\ origin[p] = i
        /\ recommendations[p].rule = rule
        /\ recommendations[p].Department = analyzed[i].Department

(***************************************************************************)
(* C1.  analyzeDepartmentData returns as many records as it was given, in  *)
(* the same order; record i carries the Department, Students, Faculty and  *)
(* Budget of input record i, a 'Student-Faculty Ratio' that is Students /  *)
(* Faculty and a 'Budget per Student' that is Budget / Students (the       *)
(* double nearest to the exact quotient); the input array is not changed.  *)
(***************************************************************************)
C1_Derived ==
    pc # "start" =>
        /\ Len(analyzed) = Len(departments)
        /\ \A i \in 1..Len(departments) :
            /\ analyzed[i].Department = departments[i].Department
            /\ analyzed[i].Students = departments[i].Students
            /\ analyzed[i].Faculty = departments[i].Faculty
            /\ analyzed[i].Budget = departments[i].Budget
            /\ IsQuotient(analyzed[i].StudentFacultyRatio,
                          departments[i].Students, departments[i].Faculty)
            /\ IsQuotient(analyzed[i].BudgetPerStudent,
                          departments[i].Budget, departments[i].Students)

C1_AnalyzeDerivesInOrder == []C1_Derived /\ [][departments' = departments]_vars

C1_Witness ==
    /\ pc = "analyzed"
    /\ Len(departments) = 2
    /\ departments[1].Department # departments[2].Department
    /\ departments[1].Students # departments[2].Students
    /\ departments[1].Budget # departments[2].Budget

(***************************************************************************)
(* C2.  For every record the forEach has visited, a high-ratio message     *)
(* naming its department has been pushed if and only if Students /         *)
(* Faculty > 30, i.e. Students > 30 * Faculty; a ratio of exactly 30       *)
(* pushes none.                                                            *)
(***************************************************************************)
C2_HighRatioIffAbove30 ==
    pc \in {"forEach", "returned", "done"} =>
        \A i \in 1..index :
            Pushed("ratio", i)
                <=> analyzed[i].Students > 30 * analyzed[i].Faculty

C2_Witness ==
    /\ pc = "returned"
    /\ \E i \in 1..index :
        /\ analyzed[i].Students = 30 * analyzed[i].Faculty
        /\ ~Pushed("ratio", i)
    /\ \E i \in 1..index : Pushed("ratio", i)

(***************************************************************************)
(* C3.  For every record the forEach has visited, a low-budget message     *)
(* naming its department has been pushed if and only if Budget / Students  *)
(* is strictly below 0.8 times the mean of Budget / Students over the      *)
(* records of the call; a record exactly at 80% of the mean pushes none.   *)
(***************************************************************************)
C3_LowBudgetIffBelow80Percent ==
    pc \in {"forEach", "returned", "done"} =>
        \A i \in 1..index :
            Pushed("budget", i) <=> ExactlyBelow80Percent(analyzed, i)

(***************************************************************************)
(* C4.  The recommendations are in input order: a message of an earlier    *)
(* record precedes every message of a later record, a record has at most   *)
(* two messages, and when it has two the high-ratio message comes          *)
(* immediately before the low-budget message.                              *)
(***************************************************************************)
C4_RecommendationsInInputOrder ==
    /\ Len(origin) = Len(recommendations)
    /\ \A p \in DOMAIN recommendations :
        /\ origin[p] \in 1..index
        /\ recommendations[p].Department = analyzed[origin[p]].Department
    /\ \A p, q \in DOMAIN recommendations :
        p < q =>
            /\ origin[p] <= origin[q]
            /\ origin[p] = origin[q] =>
                /\ q = p + 1
                /\ recommendations[p].rule = "ratio"
                /\ recommendations[q].rule = "budget"
    /\ \A i \in 1..index :
        Cardinality({p \in DOMAIN recommendations : origin[p] = i}) <= 2

C4_Witness ==
    /\ pc = "returned"
    /\ \E p, q \in DOMAIN recommendations :
        /\ q = p + 1
        /\ origin[p] = origin[q]
    /\ \E p, q \in DOMAIN recommendations : origin[p] < origin[q]

(***************************************************************************)
(* C9.  On an empty Dataset generateRecommendations returns an empty       *)
(* array without evaluating the average of the low-budget rule, and the    *)
(* aggregate summary is computed without an exception.                     *)
(***************************************************************************)
C9_EmptyDatasetNoError ==
    analyzed = <<>> =>
        /\ pc \in {"returned", "done"} =>
            recommendations = <<>> /\ avgCalls = 0
        /\ pc = "done" => summary.k = "prompt"

C9_Witness ==
    /\ pc = "done"
    /\ analyzed = <<>>
    /\ summary.k = "prompt"
    /\ summary.avgRatio.text = "NaN"

(***************************************************************************)
(* Reading a payload for stating the properties, without the program's     *)
(* property-access rules.                                                  *)
(***************************************************************************)
HasChoices(body) ==
    /\ body.json
    /\ body.value.t = "object"
    /\ "choices" \in DOMAIN body.value.props
    /\ body.value.props.choices.t = "array"
    /\ body.value.props.choices.items # <<>>

HasFirstMessage(body) ==
    /\ HasChoices(body)
    /\ body.value.props.choices.items[1].t = "object"
    /\ "message" \in DOMAIN body.value.props.choices.items[1].props
    /\ body.value.props.choices.items[1].props.message.t = "object"

FirstMessage(body) == body.value.props.choices.items[1].props.message.props

HasFirstContent(body) ==
    /\ HasFirstMessage(body)
    /\ "content" \in DOMAIN FirstMessage(body)
    /\ FirstMessage(body).content.t = "string"

\* the call failed in one of the listed ways: network error, non-2xx
\* status, malformed payload, missing choices
FailedCall(o) ==
    \/ o.how = "rejected"
    \/ /\ o.how = "response"
       /\ \/ o.status \notin 200..299
          \/ ~o.body.json
          \/ ~HasChoices(o.body)

(***************************************************************************)
(* C5.  Whenever the outbound call of getAiInsights has failed (network    *)
(* error, non-2xx response, malformed payload, missing choices), the       *)
(* insight text is exactly the fallback message.                           *)
(***************************************************************************)
C5_FailureShowsFallback == FailedCall(outcome) => aiInsight = Fallback

(***************************************************************************)
(* C6.  At most one insight request is outstanding, whatever clicks, load  *)
(* actions and network responses interleave.                               *)
(***************************************************************************)
C6_AtMostOneOutstanding == Len(requests) <= 1

C6_Witness ==
    /\ Len(requests) = 1
    /\ requests[1].stage = "json"
    /\ finished >= 1
    /\ parsing # {}
    /\ Len(loads) >= 2

(***************************************************************************)
(* C7.  The insight text changes only in the step that ends a request,     *)
(* once per request; it becomes the content of the first choice's message, *)
(* as it is (undefined when that message has none), or the fallback        *)
(* message; the loading flag is true exactly while a request is            *)
(* outstanding and false once it has ended.                                *)
(***************************************************************************)
C7_Flag ==
    /\ loading <=> requests # <<>>
    /\ writes = finished

C7_Write ==
    (aiInsight' # aiInsight \/ writes' # writes \/ finished' # finished) =>
        /\ requests # <<>>
        /\ Len(requests') = Len(requests) - 1
        /\ writes' = writes + 1
        /\ finished' = finished + 1
        /\ loading
        /\ ~loading'
        /\ \/ aiInsight' = Fallback
           \/ /\ outcome'.how = "response"
              /\ HasFirstMessage(outcome'.body)
              /\ aiInsight' = IF "content" \in DOMAIN FirstMessage(outcome'.body)
                              THEN FirstMessage(outcome'.body).content
                              ELSE Undefined

C8_DatasetOfOneLoad ==
    \/ data = <<>>
    \/ \E k \in DOMAIN loads : data = analyzeDepartmentData(loads[k])

C8_Witness ==
    /\ Len(loads) = 2
    /\ loads[1] # <<>>
    /\ loads[2] # <<>>
    /\ loads[1] # loads[2]
    /\ parsing = {}
    /\ data = analyzeDepartmentData(loads[2])

(***************************************************************************)
(* C10.  Once no parse callback is pending, the Dataset is the derivation  *)
(* of the rows of the load action triggered last.                          *)
(***************************************************************************)
C10_DatasetOfLastLoad ==
    (parsing = {} /\ loads # <<>>) =>
        data = analyzeDepartmentData(loads[Len(loads)])

====
